---- MODULE Spec2Model ----
(***************************************************************************)
(* A model of userprog/syscall.c of PintOS-KAIST: the system call          *)
(* dispatcher (syscall_handler), the pointer validator (check_address),    *)
(* the per-process file descriptor table (fdt_add_fd, fdt_get_file,        *)
(* fdt_remove_fd) and the termination path (exit).                         *)
(*                                                                         *)
(* Every process is a small program counter machine: "user" is user mode,  *)
(* syscall_handler moves it to the entry label of the requested function,  *)
(* the steps of that function follow, and a return writes f->R.rax and     *)
(* goes back to "user".  The services of the other kernel subsystems       *)
(* (file system, process lifecycle, page allocator, console) are           *)
(* environment choices: each call is logged and its result is drawn from   *)
(* the results the interface allows.                                       *)
(***************************************************************************)
EXTENDS Integers, Sequences, FiniteSets, TLC

(***************************************************************************)
(* Bounds of the model.                                                    *)
(***************************************************************************)
\* FILE_OPEN_LIMIT and FD_LIMIT are used by fdt_add_fd (syscall.c:354); their
\* values are set in threads/thread.h.  The model scales them down.
FILE_OPEN_LIMIT == 2
FD_LIMIT == 5
\* File objects the file system is able to hand out to one process.
MaxFiles == 4
\* Width of int / unsigned (scaled down from 32) and of a register word
\* (scaled down from 64).
INT_BITS == 4
WORD_BITS == 6
\* First kernel address (scaled down): user addresses are 0 .. KERN_BASE-1.
KERN_BASE == 4
\* The length a read/write is asked for, besides 0 and the all-ones length.
MaxLen == 2

\* Requests the user program of the first process makes when two programs
\* run side by side; the program of the second process makes one.
MaxCalls == 1

(***************************************************************************)
(* Program constants.                                                      *)
(***************************************************************************)
SYS_HALT == 0
SYS_EXIT == 1
SYS_FORK == 2
SYS_EXEC == 3
SYS_WAIT == 4
SYS_CREATE == 5
SYS_REMOVE == 6
SYS_OPEN == 7
SYS_FILESIZE == 8
SYS_READ == 9
SYS_WRITE == 10
SYS_SEEK == 11
SYS_TELL == 12
SYS_CLOSE == 13
STDIN_FILENO == 0
STDOUT_FILENO == 1
NULL == 0

(***************************************************************************)
(* Machine integers.                                                       *)
(***************************************************************************)
RECURSIVE Pow2(_)
Pow2(n) == IF n = 0 THEN 1 ELSE 2 * Pow2(n - 1)

\* Values of a register of struct intr_frame (uint64_t), of unsigned and of int.
Words == 0 .. (Pow2(WORD_BITS) - 1)
WordMax == Pow2(WORD_BITS) - 1
UINT_MAX == Pow2(INT_BITS) - 1

\* The least and the greatest int.
INT_MIN == 0 - Pow2(INT_BITS - 1)
INT_MAX == Pow2(INT_BITS - 1) - 1

\* (unsigned) w: the conversion of a register to unsigned keeps the low bits.
ToUnsigned(w) == w % Pow2(INT_BITS)

\* (int) u for an unsigned u: two's complement.
UnsignedToInt(u) == IF u >= Pow2(INT_BITS - 1) THEN u - Pow2(INT_BITS) ELSE u

\* (int) w: a register passed where the callee takes an int.
ToInt(w) == UnsignedToInt(ToUnsigned(w))

\* f->R.rax = i for an int i: sign extension to the register's width.
IntToWord(i) == i % Pow2(WORD_BITS)

\* f->R.rax = b for a bool b.
BoolToWord(b) == IF b THEN 1 ELSE 0

(***************************************************************************)
(* The address space seen by check_address.  Address 0 is NULL, the        *)
(* addresses 1 .. KERN_BASE-2 are mapped user addresses, KERN_BASE-1 is a  *)
(* user address no page backs, and everything from KERN_BASE up is kernel  *)
(* memory.                                                                 *)
(***************************************************************************)
is_user_vaddr(addr) == addr < KERN_BASE

pml4_get_page(addr) == IF addr \in 1 .. (KERN_BASE - 2) THEN addr ELSE NULL

\* check_address without the page table lookup.
check_address_no_pml4(addr) == ~ (addr = NULL \/ ~ is_user_vaddr(addr))

\* check_address (addr) returns (TRUE) or calls exit (-1) (FALSE).

check_address(addr) ==
    ~ (addr = NULL \/ ~ is_user_vaddr(addr) \/ pml4_get_page(addr) = NULL)

(***************************************************************************)
(* The file descriptor table: struct fd_table of the running thread.       *)
(* fd_list is the list of struct fd_str in list order, file is the index   *)
(* of a file object of the process (NULL is no file).                      *)
(***************************************************************************)
\* The table of a new thread.
fdt_init == [fd_list |-> << >>, next_fd |-> STDOUT_FILENO + 1, open_cnt |-> 0]

\* fdt_add_fd handing out the lowest handle above the open ones instead of next_fd.
fdt_add_fd_reuse(fdt, file, calloc_ok) ==
    IF fdt.open_cnt = FILE_OPEN_LIMIT \/ fdt.next_fd = FD_LIMIT
    THEN [fdt |-> fdt, ret |-> -1]
    ELSE IF ~ calloc_ok
    THEN [fdt |-> fdt, ret |-> -1]
    ELSE LET fd == STDOUT_FILENO + 1 + fdt.open_cnt
         IN [fdt |-> [fd_list  |-> Append(fdt.fd_list, [fd |-> fd, file |-> file]),
                      next_fd  |-> fdt.next_fd + 1,
                      open_cnt |-> fdt.open_cnt + 1],
             ret |-> fd]

\* fdt_add_fd counting the file before calloc is known to have succeeded.
fdt_add_fd_count_first(fdt, file, calloc_ok) ==
    IF fdt.open_cnt = FILE_OPEN_LIMIT \/ fdt.next_fd = FD_LIMIT
    THEN [fdt |-> fdt, ret |-> -1]
    ELSE IF ~ calloc_ok
    THEN [fdt |-> [fdt EXCEPT !.open_cnt = @ + 1], ret |-> -1]
    ELSE LET fd == fdt.next_fd
         IN [fdt |-> [fd_list  |-> Append(fdt.fd_list, [fd |-> fd, file |-> file]),
                      next_fd  |-> fdt.next_fd + 1,
                      open_cnt |-> fdt.open_cnt + 1],
             ret |-> fd]

\* fdt_add_fd linking the new entry at the front of the list (list_push_front).
fdt_add_fd_push_front(fdt, file, calloc_ok) ==
    IF fdt.open_cnt = FILE_OPEN_LIMIT \/ fdt.next_fd = FD_LIMIT
    THEN [fdt |-> fdt, ret |-> -1]
    ELSE IF ~ calloc_ok
    THEN [fdt |-> fdt, ret |-> -1]
    ELSE LET fd == fdt.next_fd
         IN [fdt |-> [fd_list  |-> <<[fd |-> fd, file |-> file]>> \o fdt.fd_list,
                      next_fd  |-> fdt.next_fd + 1,
                      open_cnt |-> fdt.open_cnt + 1],
             ret |-> fd]

\* fdt_add_fd limited by the number of open files only.
fdt_add_fd_no_fd_limit(fdt, file, calloc_ok) ==
    IF fdt.open_cnt = FILE_OPEN_LIMIT
    THEN [fdt |-> fdt, ret |-> -1]
    ELSE IF ~ calloc_ok
    THEN [fdt |-> fdt, ret |-> -1]
    ELSE LET fd == fdt.next_fd
         IN [fdt |-> [fd_list  |-> Append(fdt.fd_list, [fd |-> fd, file |-> file]),
                      next_fd  |-> fdt.next_fd + 1,
                      open_cnt |-> fdt.open_cnt + 1],
             ret |-> fd]

\* fdt_add_fd (file): the table afterwards and the value returned.
\* calloc_ok is whether calloc returned a descriptor.
fdt_add_fd(fdt, file, calloc_ok) ==
    IF fdt.open_cnt = FILE_OPEN_LIMIT \/ fdt.next_fd = FD_LIMIT
    THEN [fdt |-> fdt, ret |-> -1]
    ELSE IF ~ calloc_ok
    THEN [fdt |-> fdt, ret |-> -1]
    ELSE LET fd == fdt.next_fd
         IN [fdt |-> [fd_list  |-> Append(fdt.fd_list, [fd |-> fd, file |-> file]),
                      next_fd  |-> fdt.next_fd + 1,
                      open_cnt |-> fdt.open_cnt + 1],
             ret |-> fd]

\* The loop of fdt_get_file matching the first stored handle that is not below fd.
fdt_get_file_scan_lower_bound(fd_list, i, fd) ==
    IF \E j \in i .. Len(fd_list) : fd_list[j].fd >= fd
    THEN fd_list[CHOOSE j \in i .. Len(fd_list) :
                    /\ fd_list[j].fd >= fd
                    /\ \A k \in i .. (j - 1) : fd_list[k].fd < fd].file
    ELSE NULL

\* The loop of fdt_get_file from list position i on.
RECURSIVE fdt_get_file_scan(_, _, _)
fdt_get_file_scan(fd_list, i, fd) ==
    IF i > Len(fd_list) THEN NULL
    ELSE IF fd_list[i].fd = fd THEN fd_list[i].file
    ELSE IF fd_list[i].fd > fd THEN NULL
    ELSE fdt_get_file_scan(fd_list, i + 1, fd)

fdt_get_file(fdt, fd) ==
    IF fd = STDIN_FILENO \/ fd = STDOUT_FILENO \/ fd >= fdt.next_fd
    THEN NULL
    ELSE fdt_get_file_scan(fdt.fd_list, 1, fd)

\* list_remove of the element at position i.
list_remove(fd_list, i) ==
    SubSeq(fd_list, 1, i - 1) \o SubSeq(fd_list, i + 1, Len(fd_list))

\* The loop of fdt_remove_fd unlinking the front of the list (list_pop_front)
\* when it has found the entry.
fdt_remove_fd_scan_front(fdt, i, fd) ==
    IF \E j \in i .. Len(fdt.fd_list) : fdt.fd_list[j].fd = fd
    THEN [fdt EXCEPT !.open_cnt = @ - 1, !.fd_list = Tail(@)]
    ELSE fdt

\* The loop of fdt_remove_fd unlinking the back of the list (list_pop_back)
\* when it has found the entry.
fdt_remove_fd_scan_back(fdt, i, fd) ==
    IF \E j \in i .. Len(fdt.fd_list) : fdt.fd_list[j].fd = fd
    THEN [fdt EXCEPT !.open_cnt = @ - 1,
                     !.fd_list = SubSeq(@, 1, Len(@) - 1)]
    ELSE fdt

\* The loop of fdt_remove_fd from list position i on.
RECURSIVE fdt_remove_fd_scan(_, _, _)
fdt_remove_fd_scan(fdt, i, fd) ==
    IF i > Len(fdt.fd_list) THEN fdt
    ELSE IF fdt.fd_list[i].fd = fd
    THEN [fdt EXCEPT !.open_cnt = @ - 1, !.fd_list = list_remove(@, i)]
    ELSE IF fdt.fd_list[i].fd > fd THEN fdt
    ELSE fdt_remove_fd_scan(fdt, i + 1, fd)

\* fdt_remove_fd taking the file off open_cnt before it looks for the entry.
fdt_remove_fd_count_first(fdt, fd) ==
    IF fd = STDIN_FILENO \/ fd = STDOUT_FILENO \/ fd >= fdt.next_fd
    THEN fdt
    ELSE [fdt_remove_fd_scan(fdt, 1, fd) EXCEPT !.open_cnt = fdt.open_cnt - 1]

fdt_remove_fd(fdt, fd) ==
    IF fd = STDIN_FILENO \/ fd = STDOUT_FILENO \/ fd >= fdt.next_fd
    THEN fdt
    ELSE fdt_remove_fd_scan(fdt, 1, fd)

(***************************************************************************)
(* State.                                                                  *)
(***************************************************************************)
VARIABLES
    pc,        \* pc[p]: where process p is ("user", a label of a function,
               \* "thread_exit" once exit has called it, "dead" when it is done)
    cur,       \* cur[p]: the request being served: rax (call number), rdi, rsi, rdx
    rax,       \* rax[p]: f->R.rax, the result register of p's interrupt frame
    tmp,       \* tmp[p]: the local of the running function (result, or file f of open)
    fdt,       \* fdt[p]: thread_current ()->fdt
    fobj,      \* fobj[p][k]: how often file_close was called on file object k of p
    lock,      \* the process holding the filesystem lock, 0 when it is free
    ws,        \* ws[p]: thread_current ()->wait_status (exit_status, load_sema)
    printed,   \* printed[p]: the statuses of the "name: exit(status)" lines of p
    entered,   \* entered[p]: how often p entered exit ()
    exitArg,   \* exitArg[p]: the argument of the running exit ()
    svc,       \* svc[p]: kernel services called for the current request
    consumed,  \* consumed[p]: input_getc calls of the current request
    power,     \* FALSE once power_off () ran
    fdt0,      \* history: fdt0[p] is fdt[p] as it was when the request arrived
    issued,    \* history: issued[p] lists (fd, file) of every successful fdt_add_fd
    removed,   \* history: removed[p] holds the fd of every fdt_remove_fd call of close
    seen,      \* history: seen[p] lists what p's parent read in w->exit_status
               \* each time it was woken on w->load_sema
    requests   \* requests[p]: how many more requests the user program of p
               \* makes, Forever for a program that never stops making them

vars == <<pc, cur, rax, tmp, fdt, fobj, lock, ws, printed, entered, exitArg,
          svc, consumed, power, fdt0, issued, removed, seen, requests>>

hist == <<fdt0, issued, removed, seen>>

\* Process slots; a slot whose process was never started stays "unborn".
Procs == {1, 2}

\* Labels inside exit ().
ExitPcs == {"exit", "exit_sema_up", "exit_printf", "exit_thread_exit", "thread_exit"}

NoCall == [rax |-> SYS_HALT, rdi |-> 0, rsi |-> 0, rdx |-> 0]

\* A user program that never stops making requests.
Forever == 0 - 1

\* The state after the processes in P were started, the user program of p
\* making n[p] requests.
InitOf(P, n) ==
    /\ pc = [p \in Procs |-> IF p \in P THEN "user" ELSE "unborn"]
    /\ cur = [p \in Procs |-> NoCall]
    /\ rax = [p \in Procs |-> 0]
    /\ tmp = [p \in Procs |-> 0]
    /\ fdt = [p \in Procs |-> fdt_init]
    /\ fobj = [p \in Procs |-> << >>]
    /\ lock = 0
    /\ ws = [p \in Procs |-> [exit_status |-> -1, load_sema |-> 0]]
    /\ printed = [p \in Procs |-> << >>]
    /\ entered = [p \in Procs |-> 0]
    /\ exitArg = [p \in Procs |-> 0]
    /\ svc = [p \in Procs |-> {}]
    /\ consumed = [p \in Procs |-> 0]
    /\ power = TRUE
    /\ fdt0 = [p \in Procs |-> fdt_init]
    /\ issued = [p \in Procs |-> << >>]
    /\ removed = [p \in Procs |-> {}]
    /\ seen = [p \in Procs |-> << >>]
    /\ requests = n

\* One process, whose program goes on making requests.
Init == InitOf({1}, [p \in Procs |-> Forever])

\* Two processes side by side: the first makes MaxCalls requests, the second one.
InitConcurrent == InitOf(Procs, [p \in Procs |-> IF p = 1 THEN MaxCalls ELSE 1])

(***************************************************************************)
(* Inputs of a request.                                                    *)
(***************************************************************************)
\* Register values tried as a pointer: NULL, the user addresses and the first
\* kernel address.  Register values tried as a descriptor or a status: the
\* values up to the handle limit and the all-ones word, (int) -1.
PtrInputs == 0 .. KERN_BASE
FdInputs == (0 .. FD_LIMIT) \cup {WordMax}

\* Register values tried as a length: none, MaxLen bytes, and the all-ones word.
LenInputs == {0, MaxLen, WordMax}

\* Call numbers tried: the fourteen calls and one number outside them.
NrInputs == SYS_HALT .. (SYS_CLOSE + 1)

\* The registers a call reads; the others are left 0.
ArgsFor(nr) ==
    IF nr \in {SYS_READ, SYS_WRITE}
    THEN [rdi : FdInputs, rsi : PtrInputs, rdx : LenInputs]
    ELSE IF nr = SYS_CREATE
    THEN [rdi : PtrInputs, rsi : LenInputs, rdx : {0}]
    ELSE IF nr = SYS_SEEK
    THEN [rdi : FdInputs, rsi : LenInputs, rdx : {0}]
    ELSE IF nr \in {SYS_FORK, SYS_EXEC, SYS_REMOVE, SYS_OPEN}
    THEN [rdi : PtrInputs, rsi : {0}, rdx : {0}]
    ELSE IF nr \in {SYS_EXIT, SYS_WAIT, SYS_FILESIZE, SYS_TELL, SYS_CLOSE}
    THEN [rdi : FdInputs, rsi : {0}, rdx : {0}]
    ELSE [rdi : {0}, rsi : {0}, rdx : {0}]

\* The register values tried for a program that makes a bounded number of
\* requests: a null and a valid pointer, the first handle a table issues,
\* the length MaxLen.
PtrInputsFew == {NULL, 1}
FdInputsFew == {STDOUT_FILENO + 1}
LenInputsFew == {MaxLen}

ArgsForFew(nr) ==
    IF nr \in {SYS_READ, SYS_WRITE}
    THEN [rdi : FdInputsFew, rsi : PtrInputsFew, rdx : LenInputsFew]
    ELSE IF nr = SYS_CREATE
    THEN [rdi : PtrInputsFew, rsi : LenInputsFew, rdx : {0}]
    ELSE IF nr = SYS_SEEK
    THEN [rdi : FdInputsFew, rsi : LenInputsFew, rdx : {0}]
    ELSE IF nr \in {SYS_FORK, SYS_EXEC, SYS_REMOVE, SYS_OPEN}
    THEN [rdi : PtrInputsFew, rsi : {0}, rdx : {0}]
    ELSE IF nr \in {SYS_EXIT, SYS_WAIT, SYS_FILESIZE, SYS_TELL, SYS_CLOSE}
    THEN [rdi : FdInputsFew, rsi : {0}, rdx : {0}]
    ELSE [rdi : {0}, rsi : {0}, rdx : {0}]

(***************************************************************************)
(* Building blocks of the actions.                                         *)
(***************************************************************************)
Goto(p, l) == pc' = [pc EXCEPT ![p] = l]

\* A function returns to syscall_handler, which stores the word w in f->R.rax
\* and returns.
Return(p, w) ==
    /\ pc' = [pc EXCEPT ![p] = "returned"]
    /\ rax' = [rax EXCEPT ![p] = w]

\* A void function returns: f->R.rax keeps the call number.
ReturnVoid(p) ==
    /\ pc' = [pc EXCEPT ![p] = "returned"]
    /\ UNCHANGED rax

\* exit (status) is called.
CallExit(p, status) ==
    /\ pc' = [pc EXCEPT ![p] = "exit"]
    /\ exitArg' = [exitArg EXCEPT ![p] = status]
    /\ entered' = [entered EXCEPT ![p] = @ + 1]

\* A kernel service is called; locked records whether the caller holds the
\* filesystem lock at the call.
Call(p, names) ==
    svc' = [svc EXCEPT ![p] = @ \cup {[name |-> n, locked |-> (lock = p)] : n \in names}]

\* file_close (k) on file object k of p.
file_close(files, k) == [files EXCEPT ![k] = @ + 1]

RECURSIVE file_close_all(_, _, _)
file_close_all(files, fd_list, i) ==
    IF i > Len(fd_list) THEN files
    ELSE file_close_all(file_close(files, fd_list[i].file), fd_list, i + 1)

(***************************************************************************)
(* syscall_handler: the switch on f->R.rax.  exit (f->R.rdi) and the       *)
(* default branch call exit at once; every other branch calls the          *)
(* function named by its label.                                            *)
(***************************************************************************)
EntryLabel(nr) ==
    CASE nr = SYS_HALT     -> "halt"
      [] nr = SYS_FORK     -> "fork"
      [] nr = SYS_EXEC     -> "exec"
      [] nr = SYS_WAIT     -> "wait"
      [] nr = SYS_CREATE   -> "create"
      [] nr = SYS_REMOVE   -> "remove"
      [] nr = SYS_OPEN     -> "open"
      [] nr = SYS_FILESIZE -> "filesize"
      [] nr = SYS_READ     -> "read"
      [] nr = SYS_WRITE    -> "write"
      [] nr = SYS_SEEK     -> "seek"
      [] nr = SYS_TELL     -> "tell"
      [] nr = SYS_CLOSE    -> "close"
      [] OTHER             -> "exit"

\* The switch with a default branch that only breaks.
syscall_handler_switch_default_break(p, nr, a) ==
    IF nr = SYS_EXIT
    THEN CallExit(p, ToInt(a.rdi))
    ELSE /\ Goto(p, IF EntryLabel(nr) = "exit" THEN "returned" ELSE EntryLabel(nr))
         /\ UNCHANGED <<exitArg, entered>>

syscall_handler_switch(p, nr, a) ==
    IF nr = SYS_EXIT
    THEN CallExit(p, ToInt(a.rdi))
    ELSE IF EntryLabel(nr) = "exit"
    THEN CallExit(p, -1)
    ELSE /\ Goto(p, EntryLabel(nr))
         /\ UNCHANGED <<exitArg, entered>>

syscall_handler(p) ==
    /\ power /\ pc[p] = "user"
    /\ requests[p] # 0
    /\ requests' = [requests EXCEPT ![p] = IF @ = Forever THEN @ ELSE @ - 1]
    /\ \E nr \in NrInputs :
       \E a \in IF requests[p] = Forever THEN ArgsFor(nr) ELSE ArgsForFew(nr) :
          /\ cur' = [cur EXCEPT ![p] = [rax |-> nr, rdi |-> a.rdi, rsi |-> a.rsi,
                                        rdx |-> a.rdx]]
          /\ rax' = [rax EXCEPT ![p] = nr]
          /\ syscall_handler_switch(p, nr, a)
    /\ UNCHANGED <<tmp, svc, consumed, fdt, fobj, lock, ws, printed, power, hist>>

\* The process is back in user mode: syscall_handler returned and the frame
\* was restored, or process_exec started the new image.  The record of the
\* request that was served is dropped.
user_mode(p) ==
    /\ power /\ pc[p] \in {"returned", "exec_started"}
    /\ Goto(p, "user")
    /\ cur' = [cur EXCEPT ![p] = NoCall]
    /\ rax' = [rax EXCEPT ![p] = 0]
    /\ tmp' = [tmp EXCEPT ![p] = 0]
    /\ svc' = [svc EXCEPT ![p] = {}]
    /\ consumed' = [consumed EXCEPT ![p] = 0]
    /\ fdt0' = [fdt0 EXCEPT ![p] = fdt[p]]
    /\ UNCHANGED <<fdt, fobj, lock, ws, printed, entered, exitArg, power, issued,
                   removed, seen, requests>>

\* halt (): power_off ().
halt(p) ==
    /\ power /\ pc[p] = "halt"
    /\ power' = FALSE
    /\ Call(p, {"power_off"})
    /\ Goto(p, "off")
    /\ UNCHANGED <<cur, rax, tmp, fdt, fobj, lock, ws, printed, entered, exitArg,
                   consumed, hist, requests>>

(***************************************************************************)
(* exit (status), statement by statement.                                  *)
(***************************************************************************)
\* exit going on without storing the status.
exit_status_unpublished(p) ==
    /\ power /\ pc[p] = "exit"
    /\ Goto(p, "exit_sema_up")
    /\ UNCHANGED <<cur, rax, tmp, fdt, fobj, lock, ws, printed, entered, exitArg, svc,
                   consumed, power, hist, requests>>

\* w->exit_status = status;
exit_status(p) ==
    /\ power /\ pc[p] = "exit"
    /\ ws' = [ws EXCEPT ![p].exit_status = exitArg[p]]
    /\ Goto(p, "exit_sema_up")
    /\ UNCHANGED <<cur, rax, tmp, fdt, fobj, lock, printed, entered, exitArg, svc,
                   consumed, power, hist, requests>>

\* sema_up (&w->load_sema);
exit_sema_up(p) ==
    /\ power /\ pc[p] = "exit_sema_up"
    /\ ws' = [ws EXCEPT ![p].load_sema = @ + 1]
    /\ Goto(p, "exit_printf")
    /\ UNCHANGED <<cur, rax, tmp, fdt, fobj, lock, printed, entered, exitArg, svc,
                   consumed, power, hist, requests>>

\* printf ("%s: exit(%d)\n", thread_name (), status);
exit_printf(p) ==
    /\ power /\ pc[p] = "exit_printf"
    /\ printed' = [printed EXCEPT ![p] = Append(@, exitArg[p])]
    /\ Goto(p, "exit_thread_exit")
    /\ UNCHANGED <<cur, rax, tmp, fdt, fobj, lock, ws, entered, exitArg, svc,
                   consumed, power, hist, requests>>

\* The parent of p, waiting in sema_down (&w->load_sema) on the record it
\* shares with p, is woken and reads w->exit_status.
parent_sema_down(p) ==
    /\ power /\ pc[p] # "unborn"
    /\ ws[p].load_sema > 0
    /\ ws' = [ws EXCEPT ![p].load_sema = @ - 1]
    /\ seen' = [seen EXCEPT ![p] = Append(@, ws[p].exit_status)]
    /\ UNCHANGED <<pc, cur, rax, tmp, fdt, fobj, lock, printed, entered, exitArg, svc,
                   consumed, power, fdt0, issued, removed, requests>>

\* exit whose last call comes back to the caller.
thread_exit_returns(p) ==
    /\ power /\ pc[p] = "exit_thread_exit"
    /\ Call(p, {"thread_exit"})
    /\ Goto(p, "returned")
    /\ UNCHANGED <<cur, rax, tmp, fdt, fobj, lock, ws, printed, entered, exitArg,
                   consumed, power, hist, requests>>

\* thread_exit (); the last statement of exit: control passes to
\* thread_exit and does not come back.
exit_thread_exit(p) ==
    /\ power /\ pc[p] = "exit_thread_exit"
    /\ Call(p, {"thread_exit"})
    /\ Goto(p, "thread_exit")
    /\ UNCHANGED <<cur, rax, tmp, fdt, fobj, lock, ws, printed, entered, exitArg,
                   consumed, power, hist, requests>>

\* What thread_exit () does to the descriptor table of the dying process:
\* every remaining entry is closed and removed.
process_exit_drain(p) ==
    /\ fobj' = [fobj EXCEPT ![p] = file_close_all(@, fdt[p].fd_list, 1)]
    /\ fdt' = [fdt EXCEPT ![p] = [@ EXCEPT !.fd_list = << >>, !.open_cnt = 0]]

\* thread_exit () itself, which is not part of syscall.c: the table of the
\* process is drained and the process is gone.
thread_exit(p) ==
    /\ power /\ pc[p] = "thread_exit"
    /\ process_exit_drain(p)
    /\ Goto(p, "dead")
    /\ UNCHANGED <<cur, rax, tmp, lock, ws, printed, entered, exitArg, svc, consumed,
                   power, hist, requests>>

(***************************************************************************)
(* fork, exec, wait.                                                       *)
(***************************************************************************)
\* fork (thread_name): check_address, then process_fork, which returns the
\* child's tid or TID_ERROR.  (The copy of the frame into user_if that
\* syscall_handler makes first is read by process_fork only.)
fork(p) ==
    /\ power /\ pc[p] = "fork"
    /\ IF ~ check_address(cur[p].rdi)
       THEN /\ CallExit(p, -1)
            /\ UNCHANGED <<rax, svc>>
       ELSE /\ Call(p, {"process_fork"})
            /\ \E tid \in {-1, 3} : Return(p, IntToWord(tid))
            /\ UNCHANGED <<entered, exitArg>>
    /\ UNCHANGED <<cur, tmp, fdt, fobj, lock, ws, printed, consumed, power, hist, requests>>

\* exec (cmd_line): check_address; palloc_get_page may return NULL;
\* process_exec returns -1 or starts the new image and never returns.
\* The descriptor table stays as it is across a successful exec.
exec(p) ==
    /\ power /\ pc[p] = "exec"
    /\ IF ~ check_address(cur[p].rdi)
       THEN /\ CallExit(p, -1)
            /\ UNCHANGED <<tmp, svc>>
       ELSE /\ \E outcome \in {"nopage", "failed", "started"} :
                 /\ Call(p, IF outcome = "nopage" THEN {"palloc_get_page"}
                            ELSE {"palloc_get_page", "process_exec"})
                 /\ Goto(p, IF outcome = "started" THEN "exec_started" ELSE "exec_failed")
                 /\ tmp' = [tmp EXCEPT ![p] = IF outcome = "started" THEN 0 ELSE -1]
            /\ UNCHANGED <<entered, exitArg>>
    /\ UNCHANGED <<cur, rax, fdt, fobj, lock, ws, printed, consumed, power, hist, requests>>

\* syscall_handler handing the -1 of a failed exec back to the caller.
syscall_handler_exec_returns(p) ==
    /\ power /\ pc[p] = "exec_failed"
    /\ Return(p, IntToWord(tmp[p]))
    /\ UNCHANGED <<cur, tmp, fdt, fobj, lock, ws, printed, entered, exitArg, svc,
                   consumed, power, hist, requests>>

\* syscall_handler: if (exec (f->R.rdi) == -1) exit (-1);
syscall_handler_exec_failed(p) ==
    /\ power /\ pc[p] = "exec_failed"
    /\ CallExit(p, -1)
    /\ UNCHANGED <<cur, rax, tmp, fdt, fobj, lock, ws, printed, svc, consumed, power, hist, requests>>

\* wait (tid): process_wait returns the child's status or -1.
wait(p) ==
    /\ power /\ pc[p] = "wait"
    /\ Call(p, {"process_wait"})
    /\ \E status \in {-1, 0} : Return(p, IntToWord(status))
    /\ UNCHANGED <<cur, tmp, fdt, fobj, lock, ws, printed, entered, exitArg,
                   consumed, power, hist, requests>>

(***************************************************************************)
(* create and remove: check_address, then the file system call between     *)
(* filesys_acquire and filesys_release.                                    *)
(***************************************************************************)
\* check_address (file) on entry of create, remove and open.
CheckThen(p, next) ==
    /\ IF ~ check_address(cur[p].rdi)
       THEN CallExit(p, -1)
       ELSE /\ Goto(p, next)
            /\ UNCHANGED <<entered, exitArg>>
    /\ UNCHANGED <<cur, rax, tmp, fdt, fobj, lock, ws, printed, svc, consumed, power, hist, requests>>

\* filesys_acquire (): waits until the lock is free.
Acquire(p, next) ==
    /\ lock = 0
    /\ lock' = p
    /\ Goto(p, next)
    /\ UNCHANGED <<cur, rax, tmp, fdt, fobj, ws, printed, entered, exitArg, svc,
                   consumed, power, hist, requests>>

\* bool result = filesys_xxx (...);
CallBool(p, next, name) ==
    /\ Call(p, {name})
    /\ \E result \in BOOLEAN : tmp' = [tmp EXCEPT ![p] = BoolToWord(result)]
    /\ Goto(p, next)
    /\ UNCHANGED <<cur, rax, fdt, fobj, lock, ws, printed, entered, exitArg,
                   consumed, power, hist, requests>>

\* filesys_release (); return result;
ReleaseReturn(p) ==
    /\ lock' = 0
    /\ Return(p, tmp[p])
    /\ UNCHANGED <<cur, tmp, fdt, fobj, ws, printed, entered, exitArg, svc,
                   consumed, power, hist, requests>>

create(p) ==
    /\ power /\ pc[p] = "create"
    /\ CheckThen(p, "create_acquire")

create_acquire(p) ==
    /\ power /\ pc[p] = "create_acquire"
    /\ Acquire(p, "create_call")

create_call(p) ==
    /\ power /\ pc[p] = "create_call"
    /\ CallBool(p, "create_release", "filesys_create")

create_release(p) ==
    /\ power /\ pc[p] = "create_release"
    /\ ReleaseReturn(p)

remove(p) ==
    /\ power /\ pc[p] = "remove"
    /\ CheckThen(p, "remove_acquire")

remove_acquire(p) ==
    /\ power /\ pc[p] = "remove_acquire"
    /\ Acquire(p, "remove_call")

remove_call(p) ==
    /\ power /\ pc[p] = "remove_call"
    /\ CallBool(p, "remove_release", "filesys_remove")

remove_release(p) ==
    /\ power /\ pc[p] = "remove_release"
    /\ ReleaseReturn(p)

(***************************************************************************)
(* open.                                                                   *)
(***************************************************************************)
open(p) ==
    /\ power /\ pc[p] = "open"
    /\ CheckThen(p, "open_acquire")

open_acquire(p) ==
    /\ power /\ pc[p] = "open_acquire"
    /\ Acquire(p, "open_call")

\* struct file *f = filesys_open (file): NULL, or a new file object.
open_call(p) ==
    /\ power /\ pc[p] = "open_call"
    /\ Call(p, {"filesys_open"})
    /\ \E f \in {NULL} \cup (IF Len(fobj[p]) < MaxFiles THEN {Len(fobj[p]) + 1} ELSE {}) :
          /\ tmp' = [tmp EXCEPT ![p] = f]
          /\ fobj' = [fobj EXCEPT ![p] = IF f = NULL THEN @ ELSE Append(@, 0)]
    /\ Goto(p, "open_release")
    /\ UNCHANGED <<cur, rax, fdt, lock, ws, printed, entered, exitArg, consumed, power, hist, requests>>

\* open treating a file that could not be opened as fatal.
open_release_exit(p) ==
    /\ power /\ pc[p] = "open_release"
    /\ lock' = 0
    /\ IF tmp[p] = NULL
       THEN CallExit(p, -1)
       ELSE /\ Goto(p, "open_add")
            /\ UNCHANGED <<entered, exitArg>>
    /\ UNCHANGED <<cur, rax, tmp, fdt, fobj, ws, printed, svc, consumed, power, hist, requests>>

\* open returning -1 for a file that could not be opened before it has
\* released the lock.
open_release_skipped(p) ==
    /\ power /\ pc[p] = "open_release"
    /\ IF tmp[p] = NULL
       THEN /\ Return(p, IntToWord(-1))
            /\ UNCHANGED lock
       ELSE /\ lock' = 0
            /\ Goto(p, "open_add")
            /\ UNCHANGED rax
    /\ UNCHANGED <<cur, tmp, fdt, fobj, ws, printed, entered, exitArg, svc,
                   consumed, power, hist, requests>>

\* filesys_release (); if (f == NULL) return -1;
open_release(p) ==
    /\ power /\ pc[p] = "open_release"
    /\ lock' = 0
    /\ IF tmp[p] = NULL
       THEN Return(p, IntToWord(-1))
       ELSE /\ Goto(p, "open_add")
            /\ UNCHANGED rax
    /\ UNCHANGED <<cur, tmp, fdt, fobj, ws, printed, entered, exitArg, svc,
                   consumed, power, hist, requests>>

\* int fd = fdt_add_fd (f); if (fd == -1) file_close (f); return fd;
open_add(p) ==
    /\ power /\ pc[p] = "open_add"
    /\ \E calloc_ok \in BOOLEAN :
          LET r == fdt_add_fd(fdt[p], tmp[p], calloc_ok)
          IN /\ fdt' = [fdt EXCEPT ![p] = r.fdt]
             /\ IF r.ret = -1
                THEN /\ fobj' = [fobj EXCEPT ![p] = file_close(@, tmp[p])]
                     /\ Call(p, {"file_close"})
                ELSE UNCHANGED <<fobj, svc>>
             /\ issued' = [issued EXCEPT ![p] =
                    IF r.ret = -1 THEN @ ELSE Append(@, [fd |-> r.ret, file |-> tmp[p]])]
             /\ Return(p, IntToWord(r.ret))
    /\ UNCHANGED <<cur, tmp, lock, ws, printed, entered, exitArg, consumed, power,
                   fdt0, removed, seen, requests>>

(***************************************************************************)
(* close, filesize, seek, tell.                                            *)
(***************************************************************************)
\* close that leaves the entry in the table.
close_keep_entry(p) ==
    /\ power /\ pc[p] = "close"
    /\ LET fd == ToInt(cur[p].rdi)
           f == fdt_get_file(fdt[p], fd)
       IN IF f = NULL
          THEN UNCHANGED <<fobj, svc, removed>>
          ELSE /\ fobj' = [fobj EXCEPT ![p] = file_close(@, f)]
               /\ Call(p, {"file_close"})
               /\ removed' = [removed EXCEPT ![p] = @ \cup {fd}]
    /\ ReturnVoid(p)
    /\ UNCHANGED <<cur, tmp, fdt, lock, ws, printed, entered, exitArg, consumed, power,
                   fdt0, issued, seen, requests>>

\* close (fd): f = fdt_get_file (fd); if (f == NULL) return;
\* file_close (f); fdt_remove_fd (fd);
close(p) ==
    /\ power /\ pc[p] = "close"
    /\ LET fd == ToInt(cur[p].rdi)
           f == fdt_get_file(fdt[p], fd)
       IN IF f = NULL
          THEN UNCHANGED <<fdt, fobj, svc, removed>>
          ELSE /\ fobj' = [fobj EXCEPT ![p] = file_close(@, f)]
               /\ Call(p, {"file_close"})
               /\ fdt' = [fdt EXCEPT ![p] = fdt_remove_fd(@, fd)]
               /\ removed' = [removed EXCEPT ![p] = @ \cup {fd}]
    /\ ReturnVoid(p)
    /\ UNCHANGED <<cur, tmp, lock, ws, printed, entered, exitArg, consumed, power,
                   fdt0, issued, seen, requests>>

\* filesize (fd): -1 or file_length (f).
filesize(p) ==
    /\ power /\ pc[p] = "filesize"
    /\ LET f == fdt_get_file(fdt[p], ToInt(cur[p].rdi))
       IN IF f = NULL
          THEN /\ Return(p, IntToWord(-1))
               /\ UNCHANGED svc
          ELSE /\ Call(p, {"file_length"})
               /\ \E length \in {0, MaxLen} : Return(p, IntToWord(length))
    /\ UNCHANGED <<cur, tmp, fdt, fobj, lock, ws, printed, entered, exitArg,
                   consumed, power, hist, requests>>

\* seek (fd, position): nothing for the console or an unknown descriptor.
seek(p) ==
    /\ power /\ pc[p] = "seek"
    /\ LET fd == ToInt(cur[p].rdi)
           f == fdt_get_file(fdt[p], fd)
       IN IF fd = STDIN_FILENO \/ fd = STDOUT_FILENO \/ f = NULL
          THEN UNCHANGED svc
          ELSE Call(p, {"file_seek"})
    /\ ReturnVoid(p)
    /\ UNCHANGED <<cur, tmp, fdt, fobj, lock, ws, printed, entered, exitArg,
                   consumed, power, hist, requests>>

\* tell (fd): file_tell (f); for the console or an unknown descriptor the
\* function returns without a value, so the caller reads whatever the
\* return register holds: any unsigned value.
tell(p) ==
    /\ power /\ pc[p] = "tell"
    /\ LET fd == ToInt(cur[p].rdi)
           f == fdt_get_file(fdt[p], fd)
       IN IF fd = STDIN_FILENO \/ fd = STDOUT_FILENO \/ f = NULL
          THEN /\ \E garbage \in 0 .. UINT_MAX : Return(p, garbage)
               /\ UNCHANGED svc
          ELSE /\ Call(p, {"file_tell"})
               /\ \E position \in {0, MaxLen} : Return(p, position)
    /\ UNCHANGED <<cur, tmp, fdt, fobj, lock, ws, printed, entered, exitArg,
                   consumed, power, hist, requests>>

(***************************************************************************)
(* read and write.                                                         *)
(***************************************************************************)
\* The console input: the byte input_getc returns at its n-th call of a
\* request is '\0' when n = nul and some other character otherwise.
input_getc(n, nul) == IF n = nul THEN 0 ELSE 1

\* for (size_read = 0; size_read < size; size_read++)
\*   { key = input_getc (); *(buffer_read++) = key; if (key == '\0') break; }
\* from the test of the loop on: the value of size_read at the end and the
\* number of input_getc calls made.  The test compares as unsigned.  The
\* count is kept here as a natural number; size_read is an int, and read
\* decides what becomes of a count above INT_MAX.
RECURSIVE read_stdin(_, _, _)
read_stdin(size, nul, size_read) ==
    IF ~ (size_read < size)
    THEN [size_read |-> size_read, getc |-> size_read]
    ELSE IF input_getc(size_read + 1, nul) = 0
    THEN [size_read |-> size_read, getc |-> size_read + 1]
    ELSE read_stdin(size, nul, size_read + 1)

\* Bytes file_read / file_write may report for a request of size bytes.
Transferred(size) == {0} \cup (IF UnsignedToInt(size) > 0 THEN {UnsignedToInt(size)} ELSE {})

\* read (fd, buffer, size).  On the console, size_read++ at INT_MAX overflows
\* an int, which the language leaves undefined: read may then return any int.
read(p) ==
    /\ power /\ pc[p] = "read"
    /\ LET fd == ToInt(cur[p].rdi)
           buffer == cur[p].rsi
           size == ToUnsigned(cur[p].rdx)
           f == fdt_get_file(fdt[p], fd)
       IN IF ~ check_address(buffer)
          THEN /\ CallExit(p, -1)
               /\ UNCHANGED <<rax, svc, consumed>>
          ELSE /\ UNCHANGED <<entered, exitArg>>
               /\ IF fd = STDIN_FILENO
                  THEN \E nul \in 0 .. (MaxLen + 1) :
                         LET r == read_stdin(size, nul, 0)
                         IN /\ consumed' = [consumed EXCEPT ![p] = r.getc]
                            /\ IF r.getc > 0 THEN Call(p, {"input_getc"})
                               ELSE UNCHANGED svc
                            /\ IF r.size_read > INT_MAX
                               THEN \E garbage \in INT_MIN .. INT_MAX :
                                        Return(p, IntToWord(garbage))
                               ELSE Return(p, IntToWord(r.size_read))
                  ELSE IF fd = STDOUT_FILENO
                  THEN /\ Return(p, IntToWord(-1))
                       /\ UNCHANGED <<svc, consumed>>
                  ELSE IF f = NULL
                  THEN /\ Return(p, IntToWord(-1))
                       /\ UNCHANGED <<svc, consumed>>
                  ELSE /\ Call(p, {"file_read"})
                       /\ \E n \in Transferred(size) : Return(p, IntToWord(n))
                       /\ UNCHANGED consumed
    /\ UNCHANGED <<cur, tmp, fdt, fobj, lock, ws, printed, power, hist, requests>>

write(p) ==
    /\ power /\ pc[p] = "write"
    /\ LET fd == ToInt(cur[p].rdi)
           buffer == cur[p].rsi
           size == ToUnsigned(cur[p].rdx)
           f == fdt_get_file(fdt[p], fd)
       IN IF ~ check_address(buffer)
          THEN /\ CallExit(p, -1)
               /\ UNCHANGED <<rax, svc>>
          ELSE /\ UNCHANGED <<entered, exitArg>>
               /\ IF fd = STDIN_FILENO
                  THEN /\ Return(p, IntToWord(-1))
                       /\ UNCHANGED svc
                  ELSE IF fd = STDOUT_FILENO
                  THEN /\ Call(p, {"putbuf"})
                       /\ Return(p, IntToWord(UnsignedToInt(size)))
                  ELSE IF f = NULL
                  THEN /\ Return(p, IntToWord(-1))
                       /\ UNCHANGED svc
                  ELSE /\ Call(p, {"file_write"})
                       /\ \E n \in Transferred(size) : Return(p, IntToWord(n))
    /\ UNCHANGED <<cur, tmp, fdt, fobj, lock, ws, printed, consumed, power, hist, requests>>

(***************************************************************************)
(* Vocabulary of the properties.                                           *)
(***************************************************************************)
\* The handles the table operations are tried on: the least and the greatest
\* int, and everything from -1 up to the handle limit.
HandleInputs == {INT_MIN, INT_MAX} \cup ((0 - 1) .. FD_LIMIT)

\* The processes that were started.
Started == {p \in Procs : pc[p] # "unborn"}

\* An address user code must not hand to the kernel: null, in the kernel's
\* range, or backed by no page of the caller.
BadPointer(addr) == addr = NULL \/ addr >= KERN_BASE \/ addr \notin 1 .. (KERN_BASE - 2)

\* The calls that take a pointer, and the register that holds it.
PointerCalls == {SYS_FORK, SYS_EXEC, SYS_CREATE, SYS_REMOVE, SYS_OPEN, SYS_READ,
                 SYS_WRITE}

PointerOf(c) == IF c.rax \in {SYS_READ, SYS_WRITE} THEN c.rsi ELSE c.rdi

\* The services behind the pointer-taking calls.
UnderlyingServices == {"process_fork", "process_exec", "filesys_create",
                       "filesys_remove", "filesys_open", "file_read", "input_getc",
                       "file_write", "putbuf"}

ServicesCalled(p) == {e.name : e \in svc[p]}

Terminating(p) == pc[p] \in ExitPcs \cup {"dead"}

\* The handles and the files in a table.
Handles(t) == {t.fd_list[i].fd : i \in 1 .. Len(t.fd_list)}

Files(t) == {t.fd_list[i].file : i \in 1 .. Len(t.fd_list)}

\* The handles of p that were issued and not removed by close.
StillOpen(p) == {issued[p][i].fd : i \in 1 .. Len(issued[p])} \ removed[p]

(***************************************************************************)
(* C1.  A pointer-taking call (fork, exec, create, remove, open, read,     *)
(* write) whose pointer is null, in the kernel range or unmapped ends in   *)
(* the termination of the caller with status -1, and the service behind    *)
(* the call is never invoked for it, whatever the other arguments are.     *)
(***************************************************************************)
C1_BadPointerTerminates ==
    \A p \in Started :
        (cur[p].rax \in PointerCalls /\ BadPointer(PointerOf(cur[p])))
        => /\ ServicesCalled(p) \cap UnderlyingServices = {}
           /\ pc[p] # EntryLabel(cur[p].rax)
                => /\ Terminating(p)
                   /\ exitArg[p] = -1
           /\ pc[p] = "dead"
                => /\ ws[p].exit_status = -1
                   /\ printed[p] = << -1 >>

\* A write to the console with an unmapped buffer has killed the caller.
C1_Witness ==
    \E p \in Started :
        /\ pc[p] = "dead"
        /\ cur[p].rax = SYS_WRITE
        /\ ToInt(cur[p].rdi) = STDOUT_FILENO
        /\ cur[p].rsi = KERN_BASE - 1

(***************************************************************************)
(* C2.  When a process terminates, for whatever reason, every entry still  *)
(* in its descriptor table is closed and removed.  syscall.c hands the     *)
(* process to thread_exit with a table that holds exactly the handles that *)
(* were issued and not closed, each with its own file, still open, and     *)
(* with every other file of the process closed once; thread_exit drains    *)
(* that table, so once the process is terminated the table is empty and    *)
(* every file the process opened has been closed, once.                    *)
(***************************************************************************)
\* The entries of p's table are the handles still open, each with the file
\* it was issued for, and no file is in two entries.
C2_TableIsStillOpen(p) ==
    /\ Handles(fdt[p]) = StillOpen(p)
    /\ fdt[p].open_cnt = Cardinality(StillOpen(p))
    /\ Len(fdt[p].fd_list) = Cardinality(StillOpen(p))
    /\ Cardinality(Files(fdt[p])) = Len(fdt[p].fd_list)
    /\ \A i \in 1 .. Len(fdt[p].fd_list) :
           \E j \in 1 .. Len(issued[p]) :
               issued[p][j] = [fd |-> fdt[p].fd_list[i].fd,
                               file |-> fdt[p].fd_list[i].file]

C3_Released(p) == ws[p].load_sema + Len(seen[p])

C3_TerminatesOnce ==
    \A p \in Started :
        /\ entered[p] <= 1
        /\ C3_Released(p) <= 1
        /\ Len(printed[p]) <= 1
        /\ (entered[p] = 1) <=> Terminating(p)
        /\ pc[p] = "dead" => (C3_Released(p) = 1 /\ Len(printed[p]) = 1)
        /\ pc[p] \in {"exit", "exit_sema_up"} => C3_Released(p) = 0

\* A process is terminated after exec of a valid command line failed.
C3_Witness ==
    \E p \in Started :
        /\ pc[p] = "dead"
        /\ cur[p].rax = SYS_EXEC
        /\ ~ BadPointer(cur[p].rdi)
        /\ "process_exec" \in ServicesCalled(p)

(***************************************************************************)
(* C4.  Every handle fdt_add_fd returned is at least 2, and fdt_get_file   *)
(* of it returns the file that was added, whatever was added or removed    *)
(* since, until the handle is removed or the process is terminated.        *)
(***************************************************************************)
C4_HandleKeepsFile ==
    \A p \in Started : \A i \in 1 .. Len(issued[p]) :
        /\ issued[p][i].fd >= 2
        /\ (issued[p][i].fd \notin removed[p] /\ pc[p] # "dead")
             => fdt_get_file(fdt[p], issued[p][i].fd) = issued[p][i].file

\* The second of three handles was closed and a third was added, and the
\* first and the third are open.
C4_Witness ==
    \E p \in Started :
        /\ Len(issued[p]) = 3
        /\ removed[p] = {issued[p][2].fd}
        /\ pc[p] = "user"

(***************************************************************************)
(* C5.  Handles are never reused within a process: the handles returned    *)
(* by the successful fdt_add_fd calls are strictly increasing, with        *)
(* removes and failed adds in between.                                     *)
(***************************************************************************)
C5_HandlesNeverReused ==
    \A p \in Started : \A i, j \in 1 .. Len(issued[p]) :
        i < j => issued[p][i].fd < issued[p][j].fd

\* open returned a handle after an earlier handle was closed and after an
\* add had failed.
C5_Witness ==
    \E p \in Started :
        /\ pc[p] = "returned"
        /\ cur[p].rax = SYS_OPEN
        /\ Len(issued[p]) >= 2
        /\ rax[p] = issued[p][Len(issued[p])].fd
        /\ issued[p][1].fd \in removed[p]
        /\ Len(fobj[p]) > Len(issued[p])

(***************************************************************************)
(* C6.  fdt_remove_fd is idempotent: in every table the program reaches    *)
(* and for every handle, removing the handle twice leaves the table        *)
(* (entries, open_cnt, next_fd) as removing it once does; open_cnt went    *)
(* down once for every handle that was removed.                            *)
(***************************************************************************)
C6_RemoveIdempotent ==
    \A p \in Started :
        /\ \A h \in HandleInputs :
              LET once == fdt_remove_fd(fdt[p], h)
              IN fdt_remove_fd(once, h) = once
        /\ pc[p] # "dead"
              => fdt[p].open_cnt = Len(issued[p]) - Cardinality(removed[p])

\* close removed a handle and left another handle in the table, and a
\* handle is open whose removal changes the table.
C6_Witness ==
    \E p \in Started :
        /\ pc[p] = "returned"
        /\ cur[p].rax = SYS_CLOSE
        /\ ToInt(cur[p].rdi) \in removed[p]
        /\ fdt[p] # fdt0[p]
        /\ \E h \in Handles(fdt[p]) : fdt_remove_fd(fdt[p], h) # fdt[p]

(***************************************************************************)
(* C7.  In every table the program reaches, handle 0, handle 1, a handle   *)
(* >= next_fd, a negative handle and a handle already closed are not       *)
(* found: fdt_get_file returns no file and fdt_remove_fd changes nothing.  *)
(***************************************************************************)
C7_ReservedAndUnknownNotFound ==
    \A p \in Started : \A h \in HandleInputs :
        (\/ h = STDIN_FILENO
         \/ h = STDOUT_FILENO
         \/ h >= fdt[p].next_fd
         \/ h < 0
         \/ h \in removed[p])
        => /\ fdt_get_file(fdt[p], h) = NULL
           /\ fdt_remove_fd(fdt[p], h) = fdt[p]

\* filesize of a closed handle returned -1 while a higher handle is open.
C7_Witness ==
    \E p \in Started :
        /\ pc[p] = "returned"
        /\ cur[p].rax = SYS_FILESIZE
        /\ ToInt(cur[p].rdi) \in removed[p]
        /\ \E h \in Handles(fdt[p]) : h > ToInt(cur[p].rdi)
        /\ rax[p] = IntToWord(-1)

(***************************************************************************)
(* C8.  open never leaks a file object.  When open has returned -1 the     *)
(* table is as it was before the call and the file the file system opened, *)
(* if any, has been closed; when it has returned a handle, the handle is   *)
(* at least 2 and maps to the opened file.  Every file object of a process *)
(* is in its table or closed, but for the file a running open has just     *)
(* got from filesys_open and not yet added or closed.                      *)
(***************************************************************************)
C8_OpenNeverLeaks ==
    \A p \in Started :
        /\ (pc[p] = "returned" /\ cur[p].rax = SYS_OPEN)
             => IF rax[p] = IntToWord(-1)
                THEN /\ fdt[p] = fdt0[p]
                     /\ tmp[p] # NULL => fobj[p][tmp[p]] = 1
                ELSE /\ ToInt(rax[p]) >= 2
                     /\ rax[p] = ToInt(rax[p])
                     /\ tmp[p] # NULL
                     /\ \E i \in 1 .. Len(fdt[p].fd_list) :
                           fdt[p].fd_list[i] = [fd |-> rax[p], file |-> tmp[p]]
                     /\ fobj[p][tmp[p]] = 0
        /\ \A k \in 1 .. Len(fobj[p]) :
              \/ k \in Files(fdt[p])
              \/ fobj[p][k] >= 1
              \/ pc[p] \in {"open_release", "open_add"} /\ tmp[p] = k

\* open returned -1 because calloc failed, with room in the table, after
\* the file system had opened the file.
C8_Witness ==
    \E p \in Started :
        /\ pc[p] = "returned"
        /\ cur[p].rax = SYS_OPEN
        /\ rax[p] = IntToWord(-1)
        /\ tmp[p] # NULL
        /\ fdt0[p].open_cnt = 1
        /\ fdt0[p].next_fd < FD_LIMIT

(***************************************************************************)
(* C9.  An ordinary failure does not terminate the process.  With valid    *)
(* pointers, create, remove, open, filesize, read and write never enter    *)
(* exit (); open of a file that cannot be opened, open with a full table,  *)
(* read on handle 1, write on handle 0 and filesize/read/write on an       *)
(* unknown or closed handle return -1, a failed create or remove returns   *)
(* false, and the table is as it was before the call.                      *)
(***************************************************************************)
C9_Failed(p) ==
    LET c == cur[p]
        fd == ToInt(c.rdi)
        unknown == fd \notin Handles(fdt0[p]) \cup {STDIN_FILENO, STDOUT_FILENO}
    IN \/ c.rax = SYS_OPEN /\ tmp[p] = NULL
       \/ c.rax = SYS_OPEN /\ (fdt0[p].open_cnt = FILE_OPEN_LIMIT \/ fdt0[p].next_fd = FD_LIMIT)
       \/ c.rax = SYS_READ /\ fd = STDOUT_FILENO
       \/ c.rax = SYS_WRITE /\ fd = STDIN_FILENO
       \/ c.rax \in {SYS_FILESIZE, SYS_READ, SYS_WRITE} /\ unknown

C9_OrdinaryFailureReturns ==
    \A p \in Started :
        (/\ cur[p].rax \in {SYS_CREATE, SYS_REMOVE, SYS_OPEN, SYS_FILESIZE, SYS_READ,
                            SYS_WRITE}
         /\ cur[p].rax \in PointerCalls => ~ BadPointer(PointerOf(cur[p])))
        => /\ ~ Terminating(p)
           /\ entered[p] = 0
           /\ (pc[p] = "returned" /\ C9_Failed(p))
                => (rax[p] = IntToWord(-1) /\ fdt[p] = fdt0[p])
           /\ (pc[p] = "returned" /\ cur[p].rax \in {SYS_CREATE, SYS_REMOVE}
                 /\ tmp[p] = BoolToWord(FALSE))
                => (rax[p] = 0 /\ fdt[p] = fdt0[p])

\* read on a closed handle, with a valid buffer, returned -1.
C9_Witness ==
    \E p \in Started :
        /\ pc[p] = "returned"
        /\ cur[p].rax = SYS_READ
        /\ ToInt(cur[p].rdi) \in removed[p]
        /\ ~ BadPointer(cur[p].rsi)
        /\ rax[p] = IntToWord(-1)

(***************************************************************************)
(* C10.  Every call of filesys_create, filesys_remove, filesys_open and    *)
(* file_close (in close and on the table-full path of open) is made while  *)
(* the caller holds the filesystem lock.                                   *)
(***************************************************************************)
C10_FileSystemCallsUnderLock ==
    \A p \in Started : \A e \in svc[p] :
        e.name \in {"filesys_create", "filesys_remove", "filesys_open", "file_close"}
        => e.locked

(***************************************************************************)
(* C11.  read on handle 0 with a valid buffer returns the number of bytes  *)
(* it consumed from the console and stored into the buffer, whatever the   *)
(* length and the console input are.                                       *)
(***************************************************************************)
C11_ReadStdinReturnsConsumed ==
    \A p \in Started :
        (/\ pc[p] = "returned"
         /\ cur[p].rax = SYS_READ
         /\ ToInt(cur[p].rdi) = STDIN_FILENO
         /\ ~ BadPointer(cur[p].rsi))
        => rax[p] = consumed[p]

(***************************************************************************)
(* C12.  write on handle 1 with a valid buffer and the unsigned length N   *)
(* leaves exactly N in the result word, for every N up to the greatest     *)
(* unsigned value, and leaves the descriptor table as it was.              *)
(***************************************************************************)
C12_WriteStdoutReportsLength ==
    \A p \in Started :
        (/\ pc[p] = "returned"
         /\ cur[p].rax = SYS_WRITE
         /\ ToInt(cur[p].rdi) = STDOUT_FILENO
         /\ ~ BadPointer(cur[p].rsi))
        => /\ rax[p] = ToUnsigned(cur[p].rdx)
           /\ fdt[p] = fdt0[p]

(***************************************************************************)
(* C13.  exec with a valid command line that fails (no page for the copy,  *)
(* or process_exec reports failure) leaves the caller alive with -1 as     *)
(* the result of exec, and the caller then terminates with status -1;      *)
(* a failed exec never returns to user code, and a successful exec never   *)
(* returns to syscall_handler.                                             *)
(***************************************************************************)
C13_FailedExecTerminates ==
    \A p \in Started :
        (cur[p].rax = SYS_EXEC /\ ~ BadPointer(cur[p].rdi))
        => /\ pc[p] \in {"exec", "exec_failed", "exec_started"} \cup ExitPcs \cup {"dead"}
           /\ pc[p] = "exec_failed"
                => /\ tmp[p] = -1
                   /\ entered[p] = 0
                   /\ "palloc_get_page" \in ServicesCalled(p)
                   /\ "thread_exit" \notin ServicesCalled(p)
           /\ Terminating(p)
                => /\ tmp[p] = -1
                   /\ entered[p] = 1
                   /\ exitArg[p] = -1
           /\ pc[p] = "dead"
                => /\ ws[p].exit_status = -1
                   /\ printed[p] = << -1 >>
           /\ pc[p] = "exec_started"
                => /\ "process_exec" \in ServicesCalled(p)
                   /\ tmp[p] # -1
                   /\ entered[p] = 0

\* process_exec reported failure for a valid command line and the caller
\* is gone, with status -1.
C13_Witness ==
    \E p \in Started :
        /\ cur[p].rax = SYS_EXEC
        /\ ~ BadPointer(cur[p].rdi)
        /\ "process_exec" \in ServicesCalled(p)
        /\ pc[p] = "dead"
        /\ ws[p].exit_status = -1

(***************************************************************************)
(* C14.  A request whose call number is none of SYS_HALT .. SYS_CLOSE      *)
(* terminates the caller with status -1; no kernel service is called for   *)
(* it and no function that works on the descriptor table is entered: the   *)
(* table is as it was until thread_exit takes it down.                     *)
(***************************************************************************)
C14_UnknownCallTerminates ==
    \A p \in Started :
        cur[p].rax \notin SYS_HALT .. SYS_CLOSE
        => /\ Terminating(p)
           /\ entered[p] = 1
           /\ exitArg[p] = -1
           /\ ServicesCalled(p) \subseteq {"thread_exit"}
           /\ pc[p] \notin {"thread_exit", "dead"} => ServicesCalled(p) = {}
           /\ pc[p] # "dead" => fdt[p] = fdt0[p]
           /\ pc[p] = "dead"
                => /\ ws[p].exit_status = -1
                   /\ printed[p] = << -1 >>

\* A process that had a file open made a request with the number after
\* SYS_CLOSE and is gone, with status -1.
C14_Witness ==
    \E p \in Started :
        /\ cur[p].rax = SYS_CLOSE + 1
        /\ fdt0[p].open_cnt > 0
        /\ pc[p] = "dead"
        /\ ws[p].exit_status = -1

(***************************************************************************)
(* C15.  read and write validate at least the first and the last byte of   *)
(* buffer .. buffer + length - 1 before the service: when the first byte   *)
(* is valid and the last byte is null, kernel-range or unmapped, the       *)
(* caller terminates with status -1 and file_read, file_write, putbuf and  *)
(* input_getc are not called.                                              *)
(***************************************************************************)
C15_LastByte(c) == c.rsi + ToUnsigned(c.rdx) - 1

C15_BufferEndValidated ==
    \A p \in Started :
        (/\ cur[p].rax \in {SYS_READ, SYS_WRITE}
         /\ ToUnsigned(cur[p].rdx) > 0
         /\ ~ BadPointer(cur[p].rsi)
         /\ BadPointer(C15_LastByte(cur[p])))
        => /\ ServicesCalled(p) \cap {"file_read", "file_write", "putbuf", "input_getc"} = {}
           /\ pc[p] # EntryLabel(cur[p].rax)
                => /\ Terminating(p)
                   /\ exitArg[p] = -1

(***************************************************************************)
(* C16.  Whatever a process has opened and closed, its descriptor table    *)
(* lists its entries by strictly ascending handle, every handle in it is   *)
(* at least 2, next_fd is greater than every handle ever issued and at     *)
(* most FD_LIMIT, and open_cnt is the number of entries and at most        *)
(* FILE_OPEN_LIMIT.                                                        *)
(***************************************************************************)
C16_TableInvariant ==
    \A p \in Started :
        LET t == fdt[p]
            n == Len(t.fd_list)
        IN /\ \A i \in 1 .. n : \A j \in (i + 1) .. n : t.fd_list[i].fd < t.fd_list[j].fd
           /\ \A i \in 1 .. n : t.fd_list[i].fd >= STDOUT_FILENO + 1
           /\ \A i \in 1 .. Len(issued[p]) : issued[p][i].fd < t.next_fd
           /\ t.next_fd <= FD_LIMIT
           /\ t.open_cnt = n
           /\ t.open_cnt <= FILE_OPEN_LIMIT

\* A full table at the end of the handle space, after a close: as many
\* entries as files may be open, next_fd at FD_LIMIT.
C16_Witness ==
    \E p \in Started :
        /\ pc[p] = "user"
        /\ removed[p] # {}
        /\ Len(fdt[p].fd_list) = FILE_OPEN_LIMIT
        /\ fdt[p].next_fd = FD_LIMIT

(***************************************************************************)
(* C17.  Stopping the scan at the first stored handle above the target is  *)
(* an optimisation only: on every table a process can have and for every   *)
(* handle, fdt_get_file returns what a scan of all entries returns, and    *)
(* fdt_remove_fd leaves the table a scan of all entries leaves.            *)
(***************************************************************************)
\* The reference: the same functions with loops that have no early exit.
RECURSIVE C17_get_file_full_scan(_, _, _)
C17_get_file_full_scan(fd_list, i, fd) ==
    IF i > Len(fd_list) THEN NULL
    ELSE IF fd_list[i].fd = fd THEN fd_list[i].file
    ELSE C17_get_file_full_scan(fd_list, i + 1, fd)

C17_get_file_reference(t, fd) ==
    IF fd = STDIN_FILENO \/ fd = STDOUT_FILENO \/ fd >= t.next_fd
    THEN NULL
    ELSE C17_get_file_full_scan(t.fd_list, 1, fd)

RECURSIVE C17_remove_fd_full_scan(_, _, _)
C17_remove_fd_full_scan(t, i, fd) ==
    IF i > Len(t.fd_list) THEN t
    ELSE IF t.fd_list[i].fd = fd
    THEN [t EXCEPT !.open_cnt = @ - 1, !.fd_list = list_remove(@, i)]
    ELSE C17_remove_fd_full_scan(t, i + 1, fd)

C17_remove_fd_reference(t, fd) ==
    IF fd = STDIN_FILENO \/ fd = STDOUT_FILENO \/ fd >= t.next_fd
    THEN t
    ELSE C17_remove_fd_full_scan(t, 1, fd)

C17_ShortCircuitIsFullScan ==
    \A p \in Started : \A fd \in HandleInputs :
        /\ fdt_get_file(fdt[p], fd) = C17_get_file_reference(fdt[p], fd)
        /\ fdt_remove_fd(fdt[p], fd) = C17_remove_fd_reference(fdt[p], fd)

\* close of a handle that was closed before has returned, and its scan
\* stopped early: the table held a greater handle, and one below it too.
C17_Witness ==
    \E p \in Started :
        LET fd == ToInt(cur[p].rdi)
        IN /\ pc[p] = "returned"
           /\ cur[p].rax = SYS_CLOSE
           /\ fd \in removed[p]
           /\ fd \notin Handles(fdt0[p])
           /\ \E h \in Handles(fdt0[p]) : h > fd
           /\ \E h \in Handles(fdt0[p]) : h < fd

(***************************************************************************)
(* C18.  exit stores the status in the record shared with the parent       *)
(* before it releases the parent's semaphore, prints the exit line and     *)
(* calls thread_exit: whenever the semaphore has been released, the line   *)
(* printed or the thread taken down, the record holds the status exit was  *)
(* called with, and a parent woken on the semaphore has read that status.  *)
(***************************************************************************)
C18_StatusBeforeWakeup ==
    \A p \in Started :
        /\ (ws[p].load_sema > 0 \/ printed[p] # << >> \/ pc[p] = "dead")
                => (Terminating(p) /\ ws[p].exit_status = exitArg[p])
        /\ \A i \in 1 .. Len(seen[p]) :
                (Terminating(p) /\ seen[p][i] = exitArg[p])

\* The parent was woken while exit (0) was still on its way to thread_exit,
\* and read 0.
C18_Witness ==
    \E p \in Started :
        /\ pc[p] \in {"exit_printf", "exit_thread_exit", "thread_exit"}
        /\ exitArg[p] = 0
        /\ seen[p] = << 0 >>

(***************************************************************************)
(* C19.  No file is closed twice.  Every file object filesys_open returned *)
(* is passed to file_close at most once; close of a handle that is not in  *)
(* the table (closed before, 0, 1, never issued) calls nothing and leaves  *)
(* the table as it was; and a handle close has removed is never found by   *)
(* fdt_get_file again.                                                     *)
(***************************************************************************)
C19_NoDoubleClose ==
    \A p \in Started :
        /\ \A k \in 1 .. Len(fobj[p]) : fobj[p][k] <= 1
        /\ (/\ pc[p] = "returned"
            /\ cur[p].rax = SYS_CLOSE
            /\ ToInt(cur[p].rdi) \notin Handles(fdt0[p]))
           => (ServicesCalled(p) = {} /\ fdt[p] = fdt0[p])
        /\ \A h \in removed[p] :
               /\ fdt_get_file(fdt[p], h) = NULL
               /\ h \notin Handles(fdt[p])

\* The second close of a handle has returned, while another file is open;
\* the handle's file was closed once.
C19_Witness ==
    \E p \in Started :
        LET fd == ToInt(cur[p].rdi)
        IN /\ pc[p] = "returned"
           /\ cur[p].rax = SYS_CLOSE
           /\ fd \in removed[p]
           /\ fd \notin Handles(fdt0[p])
           /\ fdt0[p].open_cnt > 0
           /\ \E i \in 1 .. Len(issued[p]) :
                  issued[p][i].fd = fd /\ fobj[p][issued[p][i].file] = 1

(***************************************************************************)
(* C20.  The filesystem lock is never held across a return or a            *)
(* termination.  create, remove and open validate the pointer before they  *)
(* acquire the lock; a process holds the lock exactly from its acquire to  *)
(* the release that follows the file system call, so at most one process   *)
(* holds it and none holds it when it returns from syscall_handler, is in  *)
(* exit or is gone; and under fair scheduling a process that holds the     *)
(* lock releases it and a process that waits for it acquires it (unless    *)
(* the machine is powered off first).                                      *)
(***************************************************************************)
C20_Locked == {"create_call", "create_release", "remove_call", "remove_release",
               "open_call", "open_release"}

C20_Waits(p) == pc[p] \in {"create_acquire", "remove_acquire", "open_acquire"}

C20_LockDiscipline ==
    /\ lock \in {0} \cup Started
    /\ Cardinality({p \in Started : pc[p] \in C20_Locked}) <= 1
    /\ \A p \in Started :
          /\ lock = p <=> pc[p] \in C20_Locked
          /\ (C20_Waits(p) \/ pc[p] \in C20_Locked) => check_address(cur[p].rdi)
          /\ (Terminating(p) \/ pc[p] \in {"returned", "user", "exec_started", "off"})
                => lock # p

C20_LockNeverKept ==
    /\ [] C20_LockDiscipline
    /\ \A p \in Procs : (lock = p) ~> (lock # p \/ ~ power)
    /\ \A p \in Procs : C20_Waits(p) ~> (lock = p \/ ~ power)

\* One process is in filesys_open with the lock while the other waits in
\* the filesys_acquire of create.
C20_Witness ==
    \E p \in Started : \E q \in Started :
        /\ pc[p] = "open_call"
        /\ lock = p
        /\ pc[q] = "create_acquire"

(***************************************************************************)
(* The specification.                                                      *)
(***************************************************************************)
Next ==
    \E p \in Procs :
        \/ syscall_handler(p)
        \/ user_mode(p)
        \/ halt(p)
        \/ exit_status(p)
        \/ exit_sema_up(p)
        \/ exit_printf(p)
        \/ exit_thread_exit(p)
        \/ thread_exit(p)
        \/ parent_sema_down(p)
        \/ fork(p)
        \/ exec(p)
        \/ syscall_handler_exec_failed(p)
        \/ wait(p)
        \/ create(p)
        \/ create_acquire(p)
        \/ create_call(p)
        \/ create_release(p)
        \/ remove(p)
        \/ remove_acquire(p)
        \/ remove_call(p)
        \/ remove_release(p)
        \/ open(p)
        \/ open_acquire(p)
        \/ open_call(p)
        \/ open_release(p)
        \/ open_add(p)
        \/ close(p)
        \/ filesize(p)
        \/ read(p)
        \/ write(p)
        \/ seek(p)
        \/ tell(p)

Spec == Init /\ [][Next]_vars

(***************************************************************************)
(* Two processes under a fair scheduler: a process that can take a step,    *)
(* and stays able to, is scheduled and takes one.  Run (p) is the steps    *)
(* of process p itself.                                                    *)
(***************************************************************************)
Run(p) ==
    \/ syscall_handler(p) \/ user_mode(p) \/ halt(p)
    \/ exit_status(p) \/ exit_sema_up(p) \/ exit_printf(p) \/ exit_thread_exit(p)
    \/ thread_exit(p)
    \/ fork(p) \/ exec(p) \/ syscall_handler_exec_failed(p) \/ wait(p)
    \/ create(p) \/ create_acquire(p) \/ create_call(p) \/ create_release(p)
    \/ remove(p) \/ remove_acquire(p) \/ remove_call(p) \/ remove_release(p)
    \/ open(p) \/ open_acquire(p) \/ open_call(p) \/ open_release(p) \/ open_add(p)
    \/ close(p) \/ filesize(p) \/ read(p) \/ write(p) \/ seek(p) \/ tell(p)

Fairness == \A p \in Procs : WF_vars(Run(p))

FairSpec == InitConcurrent /\ [][Next]_vars /\ Fairness

====
